---- MODULE Spec2Model ----
(***************************************************************************)
(* State-machine model of memoc's composable allocators                    *)
(* (include/memoc/allocators.h): Malloc_allocator, Stack_allocator,        *)
(* Fallback_allocator, Free_list_allocator, Stats_allocator,               *)
(* Shared_allocator and the front-door allocate().                         *)
(*                                                                         *)
(* Addresses are integers, nullptr is 0.  The Stack_allocator buffer d_    *)
(* occupies [ArenaBase, ArenaBase + Size); the system heap hands out the   *)
(* slot addresses HeapBase + i * HeapSlotSize.  One allocator object of    *)
(* one template instantiation (variable cfg) lives in each behaviour; its  *)
(* fields are the variables below.                                         *)
(***************************************************************************)
EXTENDS Integers, Sequences, FiniteSets, TLC

VARIABLES
    cfg,                 \* which template instantiation this behaviour runs
    p_,                  \* Stack_allocator::p_
    heap,                \* addresses malloc has returned and free has not taken back
    root_,               \* Free_list_allocator::root_
    list_size_,          \* Free_list_allocator::list_size_
    next,                \* Node::next of every node written so far, by address
    number_of_records_,  \* Stats_allocator::number_of_records_
    total_allocated_,    \* Stats_allocator::total_allocated_
    stats_root_,         \* Stats_allocator::root_
    tail_,               \* Stats_allocator::tail_
    rec,                 \* the Record stored at each record address
    now,                 \* std::chrono::system_clock, as a counter of readings
    held,                \* the non-empty Blocks the caller holds
    op,                  \* the last call: [name, s, b, inst, prevLinked, by]
    ret,                 \* the caller's Block after the last call
    owned,               \* the last owns() answer
    err,                 \* the front door's error ("none" for a value)
    calls,               \* the member calls the last call made, in order
    linked,              \* the address the last call linked into the free list
    lifo,                \* every arena block freed so far was the newest live one
    leaked,              \* the arena blocks freed without p_ moving back
    undefined,           \* the last call executed undefined behaviour: the run ends
    events,              \* every Record written so far (instantiations of SpecStats)
    maker,               \* the Shared_allocator object that allocated each held Block
    out,                 \* [out, bad]: addresses taken from the inner allocator and not
                         \* given back; bad: one was given back that was not out
    other,               \* a second allocator object of the same class
    alive                \* this object has not been destroyed

vars == <<cfg, p_, heap, root_, list_size_, next, number_of_records_,
          total_allocated_, stats_root_, tail_, rec, now, held, op, ret,
          owned, err, calls, linked, lifo, leaked, undefined, events, maker,
          out, other, alive>>

\* The allocator's own fields and the memory it manages.
allocState == <<p_, heap, root_, list_size_, next, number_of_records_,
                total_allocated_, stats_root_, tail_, rec>>

(***************************************************************************)
(* Bounds of the model.                                                    *)
(***************************************************************************)
\* Heap slots malloc can hand out in the heap-heavy instantiations.
NumHeapSlots == 3
\* Readings of the clock (recorded events) a Stats_allocator behaviour makes.
MaxEvents == 4
\* Assignments made to the second object.
MaxAssigns == 1

(***************************************************************************)
(* Memory layout.                                                          *)
(***************************************************************************)
NULL == 0
ArenaBase == 1024
HeapBase == 4096
HeapSlotSize == 256
ForeignAddr == 8192
SizeofRecord == 40

HeapAddrs(n) == { HeapBase + i * HeapSlotSize : i \in 0..(n - 1) }

(***************************************************************************)
(* Block<void> (memoc/blocks.h).                                           *)
(***************************************************************************)
Block(s, p) == [size |-> s, data |-> p]
EmptyBlock == Block(0, NULL)
Block_empty(b) == b.size = 0 \/ b.data = NULL

(***************************************************************************)
(* Template instantiations: a policy is a record naming the class template *)
(* and its template arguments.                                             *)
(***************************************************************************)
Malloc == [kind |-> "Malloc"]
Stack(Size) == [kind |-> "Stack", Size |-> Size]
Fallback(P, F) == [kind |-> "Fallback", Primary |-> P, Fallback |-> F]
Free_list(I, Min, Max, MaxList) ==
    [kind |-> "Free_list", Internal_allocator |-> I, Min_size |-> Min,
     Max_size |-> Max, Max_list_size |-> MaxList]
Stats(I, N) == [kind |-> "Stats", Internal_allocator |-> I, Number_of_records |-> N]
Shared(I, id) == [kind |-> "Shared", Internal_allocator |-> I, id |-> id]

(***************************************************************************)
(* The world an operation runs in: the allocator's fields, the memory, the *)
(* clock, the log of member calls, the size of the system heap (slots) and *)
(* the flag ub: undefined behaviour was executed.                          *)
(***************************************************************************)
Logged(w, f, s, b, r) ==
    [w EXCEPT !.calls = Append(@, [f |-> f, s |-> s, b |-> b, r |-> r])]

\* s % 2 as C++ computes it: the sign follows the dividend.
CRem2(s) == IF s >= 0 THEN s % 2 ELSE -((-s) % 2)

\* std::malloc on a heap of w.slots slots: nullptr when the request does not fit a
\* slot or no slot is free.  The policies only test heap addresses for equality,
\* for null and against the arena's range, so which free slot is returned is a
\* renaming of the behaviour: the lowest free slot stands for all of them.
malloc(w, s) ==
    LET free_slots == HeapAddrs(w.slots) \ w.heap
    IN  IF free_slots = {} \/ s > HeapSlotSize
        THEN [w |-> w, p |-> NULL]
        ELSE LET a == CHOOSE x \in free_slots : \A y \in free_slots : x <= y
             IN  [w |-> [w EXCEPT !.heap = @ \cup {a}], p |-> a]

\* std::free: nullptr is ignored; a pointer malloc did not return is undefined.
free(w, p) ==
    IF p = NULL THEN w
    ELSE IF p \in w.heap THEN [w EXCEPT !.heap = @ \ {p}]
    ELSE [w EXCEPT !.ub = TRUE]

(***************************************************************************)
(* Malloc_allocator                                                        *)
(***************************************************************************)
Malloc_allocate(w, s) ==
    IF s <= 0
    THEN LET b == Block(s, NULL)
         IN  [w |-> Logged(w, "Malloc.allocate", s, EmptyBlock, b), b |-> b]
    ELSE LET m == malloc(w, s)
             b == Block(s, m.p)
         IN  [w |-> Logged(m.w, "Malloc.allocate", s, EmptyBlock, b), b |-> b]

Malloc_deallocate(w, b) ==
    [w |-> Logged(free(w, b.data), "Malloc.deallocate", 0, b, EmptyBlock),
     b |-> EmptyBlock]

Malloc_owns(b) == b.data # NULL

(***************************************************************************)
(* Stack_allocator<Size>                                                   *)
(***************************************************************************)
d_ == ArenaBase

\* A second Stack_allocator object's d_ lies this far from the first one's.
OtherOffset == 2048

\* Mutant: sizes are not rounded up to even.
align_identity(s) == s

align(s) == IF CRem2(s) = 0 THEN s ELSE s + 1

\* Mutant: the test s <= 0 is missing.
Stack_allocate_nosign(pol, w, s) ==
    LET s1 == align(s)
    IN  IF w.p_ + s1 > d_ + pol.Size \/ w.p_ = NULL
        THEN [w |-> Logged(w, "Stack.allocate", s, EmptyBlock, EmptyBlock),
              b |-> EmptyBlock]
        ELSE LET b == Block(s, w.p_)
             IN  [w |-> Logged([w EXCEPT !.p_ = @ + s1], "Stack.allocate", s, EmptyBlock, b),
                  b |-> b]

Stack_allocate(pol, w, s) ==
    LET s1 == align(s)
    IN  IF w.p_ + s1 > d_ + pol.Size \/ w.p_ = NULL \/ s <= 0
        THEN [w |-> Logged(w, "Stack.allocate", s, EmptyBlock, EmptyBlock),
              b |-> EmptyBlock]
        ELSE LET b == Block(s, w.p_)
             IN  [w |-> Logged([w EXCEPT !.p_ = @ + s1], "Stack.allocate", s, EmptyBlock, b),
                  b |-> b]

\* Mutant: the block's size is compared unaligned.
Stack_deallocate_noalign(pol, w, b) ==
    LET w1 == IF b.data = w.p_ - b.size THEN [w EXCEPT !.p_ = b.data] ELSE w
    IN  [w |-> Logged(w1, "Stack.deallocate", 0, b, EmptyBlock), b |-> EmptyBlock]

Stack_deallocate(pol, w, b) ==
    LET w1 == IF b.data = w.p_ - align(b.size) THEN [w EXCEPT !.p_ = b.data] ELSE w
    IN  [w |-> Logged(w1, "Stack.deallocate", 0, b, EmptyBlock), b |-> EmptyBlock]

\* Mutant: the buffer's first byte is left out of the range.
Stack_owns_exclusive(pol, b) == b.data > d_ /\ b.data < d_ + pol.Size

Stack_owns(pol, b) == b.data >= d_ /\ b.data < d_ + pol.Size

RECURSIVE Allocate(_, _, _)
RECURSIVE Deallocate(_, _, _)
RECURSIVE Owns(_, _)

(***************************************************************************)
(* Fallback_allocator<Primary, Fallback>                                   *)
(***************************************************************************)
Fallback_allocate(pol, w, s) ==
    LET r1 == Allocate(pol.Primary, w, s)
        r  == IF Block_empty(r1.b) THEN Allocate(pol.Fallback, r1.w, s) ELSE r1
    IN  [w |-> Logged(r.w, "Fallback.allocate", s, EmptyBlock, r.b), b |-> r.b]

\* Mutant: every block is routed to the fallback.
Fallback_deallocate_unrouted(pol, w, b) ==
    LET r == Deallocate(pol.Fallback, w, b)
    IN  [w |-> Logged(r.w, "Fallback.deallocate", 0, b, EmptyBlock), b |-> r.b]

Fallback_deallocate(pol, w, b) ==
    LET r == IF Owns(pol.Primary, b)
             THEN Deallocate(pol.Primary, w, b)
             ELSE Deallocate(pol.Fallback, w, b)
    IN  [w |-> Logged(r.w, "Fallback.deallocate", 0, b, EmptyBlock), b |-> r.b]

Fallback_owns(pol, b) == Owns(pol.Primary, b) \/ Owns(pol.Fallback, b)

(***************************************************************************)
(* Free_list_allocator<Internal_allocator, Min_size, Max_size,             *)
(*                     Max_list_size>                                      *)
(* next holds the links of the nodes in the list: a popped block's bytes    *)
(* are the caller's again, so its link is dropped from next.  Reading or   *)
(* writing Node::next through a null pointer, or reading a link that is    *)
(* not there, is undefined: the world is marked ub.                        *)
(***************************************************************************)
\* f without the entry for a.
Without(f, a) == [x \in DOMAIN f \ {a} |-> f[x]]

\* Mutant: a pop does not decrement list_size_.
Free_list_allocate_nodec(pol, w, s) ==
    IF s >= pol.Min_size /\ s <= pol.Max_size /\ w.list_size_ > 0
    THEN LET b  == Block(s, w.root_)
             nx == IF w.root_ \in DOMAIN w.next THEN w.next[w.root_] ELSE NULL
             w1 == [w EXCEPT !.root_ = nx,
                             !.next = Without(@, w.root_),
                             !.ub = @ \/ w.root_ \notin DOMAIN w.next]
         IN  [w |-> Logged(w1, "Free_list.allocate", s, EmptyBlock, b), b |-> b]
    ELSE LET r == Allocate(pol.Internal_allocator, w,
                           IF s < pol.Min_size \/ s > pol.Max_size THEN s ELSE pol.Max_size)
             b == Block(s, r.b.data)
         IN  [w |-> Logged(r.w, "Free_list.allocate", s, EmptyBlock, b), b |-> b]

Free_list_allocate(pol, w, s) ==
    IF s >= pol.Min_size /\ s <= pol.Max_size /\ w.list_size_ > 0
    THEN LET b  == Block(s, w.root_)
             nx == IF w.root_ \in DOMAIN w.next THEN w.next[w.root_] ELSE NULL
             w1 == [w EXCEPT !.root_ = nx,
                             !.next = Without(@, w.root_),
                             !.list_size_ = @ - 1,
                             !.ub = @ \/ w.root_ \notin DOMAIN w.next]
         IN  [w |-> Logged(w1, "Free_list.allocate", s, EmptyBlock, b), b |-> b]
    ELSE LET r == Allocate(pol.Internal_allocator, w,
                           IF s < pol.Min_size \/ s > pol.Max_size THEN s ELSE pol.Max_size)
             b == Block(s, r.b.data)
         IN  [w |-> Logged(r.w, "Free_list.allocate", s, EmptyBlock, b), b |-> b]

Free_list_deallocate(pol, w, b) ==
    IF b.size < pol.Min_size \/ b.size > pol.Max_size \/ w.list_size_ > pol.Max_list_size
    THEN LET nb == Block(pol.Max_size, b.data)
             r  == Deallocate(pol.Internal_allocator, w, nb)
         IN  [w |-> Logged(r.w, "Free_list.deallocate", 0, b, EmptyBlock), b |-> EmptyBlock]
    ELSE LET node == b.data
             w1 == [w EXCEPT !.next = IF node = NULL THEN @ ELSE (node :> w.root_) @@ @,
                             !.root_ = node,
                             !.list_size_ = @ + 1,
                             !.ub = @ \/ node = NULL]
         IN  [w |-> Logged(w1, "Free_list.deallocate", 0, b, EmptyBlock), b |-> EmptyBlock]

Free_list_owns(pol, b) ==
    (b.size >= pol.Min_size /\ b.size <= pol.Max_size) \/ Owns(pol.Internal_allocator, b)

(***************************************************************************)
(* Stats_allocator<Internal_allocator, Number_of_records>                  *)
(***************************************************************************)
Record(ra, qa, am, tm, nx) ==
    [record_address |-> ra, request_address |-> qa, amount |-> am, time |-> tm, next |-> nx]

\* Mutant: the ring starts one record late.
add_record_at_grow(pol, w, p, a, time) ==
        IF w.number_of_records_ > pol.Number_of_records
        THEN IF w.stats_root_ = NULL \/ w.tail_ = NULL
             THEN [w EXCEPT !.ub = TRUE]
             ELSE LET rec1  == [w.rec EXCEPT ![w.tail_].next = w.stats_root_]
                      root1 == rec1[w.stats_root_].next
                      tail1 == rec1[w.tail_].next
                      am    == SizeofRecord + a
                      rec2  == [rec1 EXCEPT ![tail1].next = NULL,
                                            ![tail1].request_address = p,
                                            ![tail1].amount = am,
                                            ![tail1].time = time]
                  IN  [w EXCEPT !.rec = rec2, !.stats_root_ = root1, !.tail_ = tail1,
                                !.total_allocated_ = @ + am]
        ELSE LET r  == Allocate(pol.Internal_allocator, w, SizeofRecord)
                 b1 == r.b
             IN  IF Block_empty(b1) THEN r.w
                 ELSE LET am    == b1.size + a
                          new   == Record(b1.data, p, am, time, NULL)
                          rec1  == IF r.w.stats_root_ = NULL
                                   THEN r.w.rec
                                   ELSE [r.w.rec EXCEPT ![r.w.tail_].next = b1.data]
                      IN  [r.w EXCEPT !.rec = (b1.data :> new) @@ rec1,
                                      !.stats_root_ = IF @ = NULL THEN b1.data ELSE @,
                                      !.tail_ = b1.data,
                                      !.total_allocated_ = @ + am,
                                      !.number_of_records_ = @ + 1]

\* Mutant: a ring overwrite is not added to total_allocated_.
add_record_at_uncounted(pol, w, p, a, time) ==
        IF w.number_of_records_ >= pol.Number_of_records
        THEN IF w.stats_root_ = NULL \/ w.tail_ = NULL
             THEN [w EXCEPT !.ub = TRUE]
             ELSE LET rec1  == [w.rec EXCEPT ![w.tail_].next = w.stats_root_]
                      root1 == rec1[w.stats_root_].next
                      tail1 == rec1[w.tail_].next
                      am    == SizeofRecord + a
                      rec2  == [rec1 EXCEPT ![tail1].next = NULL,
                                            ![tail1].request_address = p,
                                            ![tail1].amount = am,
                                            ![tail1].time = time]
                  IN  [w EXCEPT !.rec = rec2, !.stats_root_ = root1, !.tail_ = tail1]
        ELSE LET r  == Allocate(pol.Internal_allocator, w, SizeofRecord)
                 b1 == r.b
             IN  IF Block_empty(b1) THEN r.w
                 ELSE LET am    == b1.size + a
                          new   == Record(b1.data, p, am, time, NULL)
                          rec1  == IF r.w.stats_root_ = NULL
                                   THEN r.w.rec
                                   ELSE [r.w.rec EXCEPT ![r.w.tail_].next = b1.data]
                      IN  [r.w EXCEPT !.rec = (b1.data :> new) @@ rec1,
                                      !.stats_root_ = IF @ = NULL THEN b1.data ELSE @,
                                      !.tail_ = b1.data,
                                      !.total_allocated_ = @ + am,
                                      !.number_of_records_ = @ + 1]

\* Mutant: the ring overwrites the newest record.
add_record_at_newest(pol, w, p, a, time) ==
        IF w.number_of_records_ >= pol.Number_of_records
        THEN IF w.stats_root_ = NULL \/ w.tail_ = NULL
             THEN [w EXCEPT !.ub = TRUE]
             ELSE LET rec1  == w.rec
                      root1 == w.stats_root_
                      tail1 == w.tail_
                      am    == SizeofRecord + a
                      rec2  == [rec1 EXCEPT ![tail1].next = NULL,
                                            ![tail1].request_address = p,
                                            ![tail1].amount = am,
                                            ![tail1].time = time]
                  IN  [w EXCEPT !.rec = rec2, !.stats_root_ = root1, !.tail_ = tail1,
                                !.total_allocated_ = @ + am]
        ELSE LET r  == Allocate(pol.Internal_allocator, w, SizeofRecord)
                 b1 == r.b
             IN  IF Block_empty(b1) THEN r.w
                 ELSE LET am    == b1.size + a
                          new   == Record(b1.data, p, am, time, NULL)
                          rec1  == IF r.w.stats_root_ = NULL
                                   THEN r.w.rec
                                   ELSE [r.w.rec EXCEPT ![r.w.tail_].next = b1.data]
                      IN  [r.w EXCEPT !.rec = (b1.data :> new) @@ rec1,
                                      !.stats_root_ = IF @ = NULL THEN b1.data ELSE @,
                                      !.tail_ = b1.data,
                                      !.total_allocated_ = @ + am,
                                      !.number_of_records_ = @ + 1]

\* add_record(p, a, time).
add_record_at(pol, w, p, a, time) ==
        IF w.number_of_records_ >= pol.Number_of_records
        THEN IF w.stats_root_ = NULL \/ w.tail_ = NULL
             THEN [w EXCEPT !.ub = TRUE]
             ELSE LET rec1  == [w.rec EXCEPT ![w.tail_].next = w.stats_root_]
                      root1 == rec1[w.stats_root_].next
                      tail1 == rec1[w.tail_].next
                      am    == SizeofRecord + a
                      rec2  == [rec1 EXCEPT ![tail1].next = NULL,
                                            ![tail1].request_address = p,
                                            ![tail1].amount = am,
                                            ![tail1].time = time]
                  IN  [w EXCEPT !.rec = rec2, !.stats_root_ = root1, !.tail_ = tail1,
                                !.total_allocated_ = @ + am]
        ELSE LET r  == Allocate(pol.Internal_allocator, w, SizeofRecord)
                 b1 == r.b
             IN  IF Block_empty(b1) THEN r.w
                 ELSE LET am    == b1.size + a
                          new   == Record(b1.data, p, am, time, NULL)
                          rec1  == IF r.w.stats_root_ = NULL
                                   THEN r.w.rec
                                   ELSE [r.w.rec EXCEPT ![r.w.tail_].next = b1.data]
                      IN  [r.w EXCEPT !.rec = (b1.data :> new) @@ rec1,
                                      !.stats_root_ = IF @ = NULL THEN b1.data ELSE @,
                                      !.tail_ = b1.data,
                                      !.total_allocated_ = @ + am,
                                      !.number_of_records_ = @ + 1]

\* add_record(p, a) with the default time argument system_clock::now().
add_record(pol, w0, p, a) ==
    add_record_at(pol, [w0 EXCEPT !.now = @ + 1], p, a, w0.now)

Stats_allocate(pol, w, s) ==
    LET r  == Allocate(pol.Internal_allocator, w, s)
        w1 == IF ~Block_empty(r.b) THEN add_record(pol, r.w, r.b.data, r.b.size) ELSE r.w
    IN  [w |-> Logged(w1, "Stats.allocate", s, EmptyBlock, r.b), b |-> r.b]

Stats_deallocate(pol, w, b) ==
    LET bc == b
        r  == Deallocate(pol.Internal_allocator, w, b)
        w1 == IF Block_empty(r.b) THEN add_record(pol, r.w, bc.data, -bc.size) ELSE r.w
    IN  [w |-> Logged(w1, "Stats.deallocate", 0, b, EmptyBlock), b |-> r.b]

Stats_owns(pol, b) == Owns(pol.Internal_allocator, b)

(***************************************************************************)
(* Shared_allocator<Internal_allocator, id>: every instance forwards to    *)
(* the one static allocator_, whose fields are the variables.              *)
(***************************************************************************)
Shared_allocate(pol, w, s) ==
    LET r == Allocate(pol.Internal_allocator, w, s)
    IN  [w |-> Logged(r.w, "Shared.allocate", s, EmptyBlock, r.b), b |-> r.b]

\* Mutant: the call is not forwarded to allocator_.
Shared_deallocate_local(pol, w, b) ==
    [w |-> Logged(w, "Shared.deallocate", 0, b, EmptyBlock), b |-> b]

Shared_deallocate(pol, w, b) ==
    LET r == Deallocate(pol.Internal_allocator, w, b)
    IN  [w |-> Logged(r.w, "Shared.deallocate", 0, b, EmptyBlock), b |-> r.b]

Shared_owns(pol, b) == Owns(pol.Internal_allocator, b)

(***************************************************************************)
(* Static dispatch on the policy's class.                                  *)
(***************************************************************************)
Allocate(pol, w, s) ==
    CASE pol.kind = "Malloc"    -> Malloc_allocate(w, s)
      [] pol.kind = "Stack"     -> Stack_allocate(pol, w, s)
      [] pol.kind = "Fallback"  -> Fallback_allocate(pol, w, s)
      [] pol.kind = "Free_list" -> Free_list_allocate(pol, w, s)
      [] pol.kind = "Stats"     -> Stats_allocate(pol, w, s)
      [] pol.kind = "Shared"    -> Shared_allocate(pol, w, s)

Deallocate(pol, w, b) ==
    CASE pol.kind = "Malloc"    -> Malloc_deallocate(w, b)
      [] pol.kind = "Stack"     -> Stack_deallocate(pol, w, b)
      [] pol.kind = "Fallback"  -> Fallback_deallocate(pol, w, b)
      [] pol.kind = "Free_list" -> Free_list_deallocate(pol, w, b)
      [] pol.kind = "Stats"     -> Stats_deallocate(pol, w, b)
      [] pol.kind = "Shared"    -> Shared_deallocate(pol, w, b)

Owns(pol, b) ==
    CASE pol.kind = "Malloc"    -> Malloc_owns(b)
      [] pol.kind = "Stack"     -> Stack_owns(pol, b)
      [] pol.kind = "Fallback"  -> Fallback_owns(pol, b)
      [] pol.kind = "Free_list" -> Free_list_owns(pol, b)
      [] pol.kind = "Stats"     -> Stats_owns(pol, b)
      [] pol.kind = "Shared"    -> Shared_owns(pol, b)

(***************************************************************************)
(* Copy, move and destruction.  An object is the record of its fields and  *)
(* of the address d_ of its embedded buffer; st = [dst, src, w] is the     *)
(* destination object, the source object and the memory.  The copy         *)
(* assignment operators return by value: the temporary they return is a    *)
(* copy of the destination that is destroyed at once, taking nothing with  *)
(* it that it did not bring, and is left out.                              *)
(***************************************************************************)
\* The world with the fields of object o in place.
PutObj(w, o) ==
    [w EXCEPT !.p_ = o.p_, !.root_ = o.root_, !.list_size_ = o.list_size_,
              !.number_of_records_ = o.number_of_records_,
              !.total_allocated_ = o.total_allocated_,
              !.stats_root_ = o.stats_root_, !.tail_ = o.tail_]

\* Object o with its fields as the world has them.
GetObj(w, o) ==
    [o EXCEPT !.p_ = w.p_, !.root_ = w.root_, !.list_size_ = w.list_size_,
              !.number_of_records_ = w.number_of_records_,
              !.total_allocated_ = w.total_allocated_,
              !.stats_root_ = w.stats_root_, !.tail_ = w.tail_]

RECURSIVE CopyConstruct(_, _)
RECURSIVE CopyAssign(_, _)
RECURSIVE MoveConstruct(_, _)
RECURSIVE MoveAssign(_, _)
RECURSIVE Destroy(_, _)

Stack_copy_construct(pol, st) == [st EXCEPT !.dst.p_ = st.dst.d_]

Stack_copy_assign(pol, st) == [st EXCEPT !.dst.p_ = st.dst.d_]

\* Mutant: the source keeps its p_.
Stack_move_construct_keep(pol, st) == [st EXCEPT !.dst.p_ = st.dst.d_]

Stack_move_construct(pol, st) == [st EXCEPT !.dst.p_ = st.dst.d_, !.src.p_ = NULL]

Stack_move_assign(pol, st) == [st EXCEPT !.dst.p_ = st.dst.d_, !.src.p_ = NULL]

Free_list_copy_construct(pol, st) ==
    LET s1 == CopyConstruct(pol.Internal_allocator, st)
    IN  [s1 EXCEPT !.dst.root_ = NULL, !.dst.list_size_ = 0]

Free_list_copy_assign(pol, st) ==
    LET s1 == CopyAssign(pol.Internal_allocator, st)
    IN  [s1 EXCEPT !.dst.root_ = NULL, !.dst.list_size_ = 0]

Free_list_move_construct(pol, st) ==
    LET s1 == MoveConstruct(pol.Internal_allocator, st)
    IN  [s1 EXCEPT !.dst.root_ = s1.src.root_, !.dst.list_size_ = s1.src.list_size_,
                   !.src.root_ = NULL, !.src.list_size_ = 0]

Free_list_move_assign(pol, st) ==
    LET s1 == MoveAssign(pol.Internal_allocator, st)
    IN  [s1 EXCEPT !.dst.root_ = s1.src.root_, !.dst.list_size_ = s1.src.list_size_,
                   !.src.root_ = NULL, !.src.list_size_ = 0]

\* ~Free_list_allocator: the loop from i on.
RECURSIVE Free_list_drain(_, _, _)
Free_list_drain(pol, w, i) ==
    IF i >= w.list_size_ THEN w
    ELSE LET n  == w.root_
             ok == n \in DOMAIN w.next
             w1 == [w EXCEPT !.root_ = IF ok THEN w.next[n] ELSE NULL,
                             !.next = Without(@, n),
                             !.ub = @ \/ ~ok]
             r  == Deallocate(pol.Internal_allocator, w1, Block(pol.Max_size, n))
         IN  Free_list_drain(pol, r.w, i + 1)

\* Mutant: the destructor leaves the list as it is.
Free_list_destroy_keep(pol, w) == Destroy(pol.Internal_allocator, w)

Free_list_destroy(pol, w) ==
    Destroy(pol.Internal_allocator, Free_list_drain(pol, w, 0))

\* The for loops of the copy operations: add_record for the source's records from r on.
RECURSIVE Stats_replay(_, _, _)
Stats_replay(pol, st, r) ==
    IF r = NULL THEN st
    ELSE LET wd == PutObj(st.w, st.dst)
             w2 == add_record_at(pol, wd, wd.rec[r].request_address,
                                 wd.rec[r].amount - SizeofRecord, wd.rec[r].time)
         IN  Stats_replay(pol, [st EXCEPT !.w = w2, !.dst = GetObj(w2, st.dst)],
                          w2.rec[r].next)

Stats_copy_construct(pol, st) ==
    LET s1 == CopyConstruct(pol.Internal_allocator, st)
    IN  Stats_replay(pol, s1, s1.src.stats_root_)

Stats_copy_assign(pol, st) ==
    LET s1 == CopyAssign(pol.Internal_allocator, st)
    IN  Stats_replay(pol, s1, s1.src.stats_root_)

Stats_move_construct(pol, st) ==
    LET s1 == MoveConstruct(pol.Internal_allocator, st)
    IN  [s1 EXCEPT !.dst.number_of_records_ = s1.src.number_of_records_,
                   !.dst.total_allocated_ = s1.src.total_allocated_,
                   !.dst.stats_root_ = s1.src.stats_root_,
                   !.dst.tail_ = s1.src.tail_,
                   !.src.number_of_records_ = 0, !.src.total_allocated_ = 0,
                   !.src.stats_root_ = NULL, !.src.tail_ = NULL]

Stats_move_assign(pol, st) ==
    LET s1 == MoveAssign(pol.Internal_allocator, st)
    IN  [s1 EXCEPT !.dst.number_of_records_ = s1.src.number_of_records_,
                   !.dst.total_allocated_ = s1.src.total_allocated_,
                   !.dst.stats_root_ = s1.src.stats_root_,
                   !.dst.tail_ = s1.src.tail_,
                   !.src.number_of_records_ = 0, !.src.total_allocated_ = 0,
                   !.src.stats_root_ = NULL, !.src.tail_ = NULL]

\* ~Stats_allocator: the while loop from record c on.
RECURSIVE Stats_release(_, _, _)
Stats_release(pol, w, c) ==
    IF c = NULL THEN w
    ELSE LET n == w.rec[c].next
             r == Deallocate(pol.Internal_allocator, w,
                             Block(SizeofRecord, w.rec[c].record_address))
         IN  Stats_release(pol, r.w, n)

Stats_destroy(pol, w) ==
    Destroy(pol.Internal_allocator, Stats_release(pol, w, w.stats_root_))

\* The implicitly defined operations of the classes that declare none.
CopyConstruct(pol, st) ==
    CASE pol.kind = "Stack"     -> Stack_copy_construct(pol, st)
      [] pol.kind = "Free_list" -> Free_list_copy_construct(pol, st)
      [] pol.kind = "Stats"     -> Stats_copy_construct(pol, st)
      [] pol.kind = "Fallback"  ->
            CopyConstruct(pol.Fallback, CopyConstruct(pol.Primary, st))
      [] OTHER                  -> st

CopyAssign(pol, st) ==
    CASE pol.kind = "Stack"     -> Stack_copy_assign(pol, st)
      [] pol.kind = "Free_list" -> Free_list_copy_assign(pol, st)
      [] pol.kind = "Stats"     -> Stats_copy_assign(pol, st)
      [] pol.kind = "Fallback"  ->
            CopyAssign(pol.Fallback, CopyAssign(pol.Primary, st))
      [] OTHER                  -> st

MoveConstruct(pol, st) ==
    CASE pol.kind = "Stack"     -> Stack_move_construct(pol, st)
      [] pol.kind = "Free_list" -> Free_list_move_construct(pol, st)
      [] pol.kind = "Stats"     -> Stats_move_construct(pol, st)
      [] pol.kind = "Fallback"  ->
            MoveConstruct(pol.Fallback, MoveConstruct(pol.Primary, st))
      [] OTHER                  -> st

MoveAssign(pol, st) ==
    CASE pol.kind = "Stack"     -> Stack_move_assign(pol, st)
      [] pol.kind = "Free_list" -> Free_list_move_assign(pol, st)
      [] pol.kind = "Stats"     -> Stats_move_assign(pol, st)
      [] pol.kind = "Fallback"  ->
            MoveAssign(pol.Fallback, MoveAssign(pol.Primary, st))
      [] OTHER                  -> st

Destroy(pol, w) ==
    CASE pol.kind = "Free_list" -> Free_list_destroy(pol, w)
      [] pol.kind = "Stats"     -> Stats_destroy(pol, w)
      [] pol.kind = "Fallback"  -> Destroy(pol.Primary, Destroy(pol.Fallback, w))
      [] OTHER                  -> w

(***************************************************************************)
(* The front door: allocate(allocator, size) -> Expected<Block, error>.    *)
(***************************************************************************)
\* Mutant: size 0 is refused like a negative size.
front_allocate_nonpositive(pol, w, size) ==
    IF size <= 0 THEN [w |-> w, b |-> EmptyBlock, err |-> "invalid_size"]
    ELSE LET r == Allocate(pol, w, size)
         IN  IF Block_empty(r.b)
             THEN [w |-> r.w, b |-> EmptyBlock, err |-> "unknown"]
             ELSE [w |-> r.w, b |-> r.b, err |-> "none"]

front_allocate(pol, w, size) ==
    IF size < 0 THEN [w |-> w, b |-> EmptyBlock, err |-> "invalid_size"]
    ELSE IF size = 0 THEN [w |-> w, b |-> EmptyBlock, err |-> "none"]
    ELSE LET r == Allocate(pol, w, size)
         IN  IF Block_empty(r.b)
             THEN [w |-> r.w, b |-> EmptyBlock, err |-> "unknown"]
             ELSE [w |-> r.w, b |-> r.b, err |-> "none"]

(***************************************************************************)
(* The instantiations explored, the sizes a caller asks for in each and    *)
(* the number of heap slots the system heap has in each.                   *)
(***************************************************************************)
Scenarios == {"Heap", "Arena16", "FallbackAH", "FreeListH", "FreeListA",
              "FallbackFAH", "StatsH", "StatsA", "SharedH"}

Pol(c) ==
    CASE c = "Heap"        -> Malloc
      [] c = "Arena16"     -> Stack(16)
      [] c = "FallbackAH"  -> Fallback(Stack(128), Malloc)
      [] c = "FreeListH"   -> Free_list(Malloc, 16, 64, 2)
      [] c = "FreeListA"   -> Free_list(Stack(128), 16, 64, 4)
      [] c = "FallbackFAH" -> Fallback(Free_list(Stack(128), 16, 64, 4), Malloc)
      [] c = "StatsH"      -> Stats(Malloc, 2)
      [] c = "StatsA"      -> Stats(Stack(128), 2)
      [] c = "SharedH"     -> Shared(Malloc, 7)
      [] c = "StatsRing"   -> Stats(Malloc, 2)
      [] c = "SharedA"     -> Shared(Stack(16), 7)
      [] c = "StatsL"      -> Stats(Malloc, 2)
      [] c = "FreeListA64" -> Free_list(Stack(64), 16, 64, 4)
      [] c = "FreeListL"   -> Free_list(Malloc, 16, 64, 2)
      [] c = "StatsL1"     -> Stats(Malloc, 1)

Sizes(c) ==
    CASE c = "Heap"        -> {-1, 0, 3, 32}
      [] c = "Arena16"     -> {-1, 0, 3, 4, 18}
      [] c = "FallbackAH"  -> {-1, 0, 32}
      [] c = "FreeListH"   -> {0, 3, 32, 48}
      [] c = "FreeListA"   -> {-1, 0, 32, 100}
      [] c = "FallbackFAH" -> {0, 32, 100}
      [] c = "StatsH"      -> {0, 10, 20, 30}
      [] c = "StatsA"      -> {-1, 0, 10, 48}
      [] c = "SharedH"     -> {-1, 0, 32}
      [] c = "StatsRing"   -> {10, 20, 30}
      [] c = "SharedA"     -> {-1, 0, 3, 8}
      [] c = "StatsL"      -> {10}
      [] c = "FreeListA64" -> {8, 14}
      [] c = "FreeListL"   -> {3, 32}
      [] c = "StatsL1"     -> {10}

Slots(c) ==
    CASE c = "Heap"        -> 3
      [] c = "FallbackAH"  -> 2
      [] c = "FreeListH"   -> NumHeapSlots
      [] c = "FallbackFAH" -> 2
      [] c = "StatsH"      -> 3
      [] c = "StatsRing"   -> 5
      [] c = "StatsL"      -> 4
      [] c = "FreeListL"   -> 3
      [] c = "StatsL1"     -> 3
      [] c = "SharedH"     -> 2
      [] OTHER             -> 0

\* The Shared_allocator objects a caller uses; the other policies have one.
Instances(c) == IF c \in {"SharedH", "SharedA"} THEN {1, 2} ELSE {1}

\* The Stack_allocator whose blocks reach the caller as they are, if any.
ArenaSize(c) ==
    CASE c = "Arena16"    -> 16
      [] c = "FallbackAH" -> 128
      [] OTHER            -> 0

\* Empty Blocks a caller can hold: Block{} and what a failed allocate(s) returned.
EmptyInputs(c) == { Block(s, NULL) : s \in { x \in Sizes(c) : x >= 0 } \cup {0} }

\* Blocks of memory this allocator never handed out.
ForeignInputs(c) == { Block(s, ForeignAddr) : s \in { x \in Sizes(c) : x > 0 } }

InArena(c, a) == ArenaSize(c) > 0 /\ a >= d_ /\ a < d_ + ArenaSize(c)

\* The newest live arena block: the one at the highest address.
IsTopHeld(c, b) ==
    /\ b \in held /\ InArena(c, b.data)
    /\ \A x \in held : InArena(c, x.data) => x.data <= b.data

World(c) ==
    [slots |-> Slots(c), p_ |-> p_, heap |-> heap, root_ |-> root_, list_size_ |-> list_size_,
     next |-> next, number_of_records_ |-> number_of_records_,
     total_allocated_ |-> total_allocated_, stats_root_ |-> stats_root_,
     tail_ |-> tail_, rec |-> rec, now |-> now,
     calls |-> <<>>, ub |-> FALSE]

\* The call is one the bounds admit.
Admitted(w) == w.now <= MaxEvents

\* The class of the allocator a Free_list_allocator or a Stats_allocator
\* derives from (takes its memory from).
InnerKind(c) ==
    IF Pol(c).kind \in {"Free_list", "Stats"} THEN Pol(c).Internal_allocator.kind ELSE "none"

\* The addresses taken from the inner allocator k and not given back to it, after
\* the member calls cs[i..], starting from st = [out, bad].
RECURSIVE Account(_, _, _, _)
Account(cs, k, i, st) ==
    IF i > Len(cs) THEN st
    ELSE LET e == cs[i]
             s1 == IF e.f = k \o ".allocate" /\ e.r.data # NULL
                   THEN [out |-> st.out \cup {e.r.data},
                         bad |-> st.bad \/ e.r.data \in st.out]
                   ELSE IF e.f = k \o ".deallocate" /\ e.b.data # NULL
                   THEN [out |-> st.out \ {e.b.data},
                         bad |-> st.bad \/ e.b.data \notin st.out]
                   ELSE st
         IN  Account(cs, k, i + 1, s1)

\* The Stats_allocator instantiations whose records are followed one by one.
StatsScenarios == {"StatsRing", "StatsA"}

\* The Record an allocate or deallocate call wrote, if it wrote one: the one
\* stamped with the clock reading the call took.
Written(w, o, rb) ==
    LET blk == IF o.name = "deallocate" THEN o.b ELSE rb
        as  == { a \in DOMAIN w.rec : w.now > now /\ w.rec[a].time = now }
    IN  IF cfg \in StatsScenarios /\ as # {}
        THEN LET a == CHOOSE x \in as : TRUE
             IN  <<[record_address |-> a, request_address |-> w.rec[a].request_address,
                    amount |-> w.rec[a].amount, time |-> w.rec[a].time,
                    dealloc |-> (o.name = "deallocate"), block |-> blk]>>
        ELSE <<>>

\* No second object.
NoObject ==
    [state |-> "none", assigned |-> 0, d_ |-> d_ + OtherOffset, p_ |-> NULL, root_ |-> NULL, list_size_ |-> 0,
     number_of_records_ |-> 0, total_allocated_ |-> 0, stats_root_ |-> NULL,
     tail_ |-> NULL]

\* The state of a default-constructed allocator and of a caller holding nothing.
InitFields ==
    /\ p_ = d_
    /\ heap = {}
    /\ root_ = NULL
    /\ list_size_ = 0
    /\ next = [a \in {} |-> NULL]
    /\ number_of_records_ = 0
    /\ total_allocated_ = 0
    /\ stats_root_ = NULL
    /\ tail_ = NULL
    /\ rec = [a \in {} |-> NULL]
    /\ now = 0
    /\ held = {}
    /\ op = [name |-> "init", s |-> 0, b |-> EmptyBlock, inst |-> 1, prevLinked |-> NULL,
             by |-> 0]
    /\ ret = EmptyBlock
    /\ owned = FALSE
    /\ err = "none"
    /\ calls = <<>>
    /\ linked = NULL
    /\ lifo = TRUE
    /\ leaked = {}
    /\ undefined = FALSE
    /\ events = <<>>
    /\ maker = [b \in {} |-> 1]
    /\ out = [out |-> {}, bad |-> FALSE]
    /\ other = NoObject
    /\ alive = TRUE

Init == cfg \in Scenarios /\ InitFields

\* The call returns: the allocator's fields and the caller's view change.
Return(w, o, rb, ow, er, h) ==
    /\ p_' = w.p_
    /\ heap' = w.heap
    /\ root_' = w.root_
    /\ list_size_' = w.list_size_
    /\ next' = w.next
    /\ number_of_records_' = w.number_of_records_
    /\ total_allocated_' = w.total_allocated_
    /\ stats_root_' = w.stats_root_
    /\ tail_' = w.tail_
    /\ rec' = w.rec
    /\ now' = w.now
    /\ held' = h
    /\ op' = o
    /\ ret' = rb
    /\ owned' = ow
    /\ err' = er
    /\ calls' = w.calls
    /\ linked' = IF w.list_size_ = list_size_ + 1 THEN w.root_ ELSE NULL
    /\ lifo' = (lifo /\ (o.name = "deallocate" /\ o.b \in held /\ InArena(cfg, o.b.data)
                          => IsTopHeld(cfg, o.b)))
    /\ leaked' = IF o.name = "deallocate" /\ o.b \in held /\ InArena(cfg, o.b.data)
                     /\ w.p_ = p_
                  THEN leaked \cup {o.b}
                  ELSE leaked
    /\ undefined' = w.ub
    /\ events' = events \o Written(w, o, rb)
    /\ maker' = [b \in h |-> IF b \in DOMAIN maker THEN maker[b] ELSE o.inst]
    /\ out' = Account(w.calls, InnerKind(cfg), 1, out)
    /\ UNCHANGED <<cfg, other, alive>>

\* The call executed undefined behaviour and the process is killed inside it:
\* nothing returns.  (Return is the outcome where the access goes through.)
Killed(w, o) ==
    /\ w.ub
    /\ undefined' = TRUE
    /\ op' = o
    /\ calls' = w.calls
    /\ UNCHANGED <<cfg, p_, heap, root_, list_size_, next, number_of_records_,
                   total_allocated_, stats_root_, tail_, rec, now, held, ret,
                   owned, err, linked, lifo, leaked, events, maker, out, other, alive>>

Call(nm, s, b, i) ==
    [name |-> nm, s |-> s, b |-> b, inst |-> i, prevLinked |-> linked,
     by |-> IF b \in DOMAIN maker THEN maker[b] ELSE 0]

AllocateStep ==
    /\ ~undefined
    /\ \E s \in Sizes(cfg), i \in Instances(cfg) :
         LET r == Allocate(Pol(cfg), World(cfg), s)
             h == IF Block_empty(r.b) THEN held ELSE held \cup {r.b}
         IN  /\ Admitted(r.w)
             /\ \/ Return(r.w, Call("allocate", s, EmptyBlock, i), r.b, FALSE, "none", h)
                \/ Killed(r.w, Call("allocate", s, EmptyBlock, i))

DeallocateStep ==
    /\ ~undefined
    /\ \E b \in held \cup EmptyInputs(cfg), i \in Instances(cfg) :
         LET r == Deallocate(Pol(cfg), World(cfg), b)
         IN  /\ Admitted(r.w)
             /\ \/ Return(r.w, Call("deallocate", 0, b, i), r.b, FALSE, "none", held \ {b})
                \/ Killed(r.w, Call("deallocate", 0, b, i))

OwnsStep ==
    /\ ~undefined
    /\ \E b \in held \cup EmptyInputs(cfg) \cup ForeignInputs(cfg), i \in Instances(cfg) :
         Return(World(cfg), Call("owns", 0, b, i), b, Owns(Pol(cfg), b), "none", held)

FrontAllocateStep ==
    /\ ~undefined
    /\ \E s \in Sizes(cfg), i \in Instances(cfg) :
         LET r == front_allocate(Pol(cfg), World(cfg), s)
             h == IF Block_empty(r.b) THEN held ELSE held \cup {r.b}
         IN  /\ Admitted(r.w)
             /\ \/ Return(r.w, Call("front_allocate", s, EmptyBlock, i), r.b, FALSE, r.err, h)
                \/ Killed(r.w, Call("front_allocate", s, EmptyBlock, i))

Next == AllocateStep \/ DeallocateStep \/ OwnsStep \/ FrontAllocateStep

Spec == Init /\ [][Next]_vars

(***************************************************************************)
(* The Stats_allocator instantiations on their own: over a heap of five    *)
(* slots, and over an arena of 128 bytes.                                  *)
(***************************************************************************)
InitStats == cfg \in StatsScenarios /\ InitFields

\* The calls that can write a record.
NextStats == AllocateStep \/ DeallocateStep

SpecStats == InitStats /\ [][NextStats]_vars

(***************************************************************************)
(* Object lifetime: a second object is copy- or move-constructed from the  *)
(* first, or assigned from it, and the first is destroyed.  The caller     *)
(* goes on using the first object after a copy or a move.                  *)
(***************************************************************************)
LifeScenarios == {"Arena16", "FreeListH", "FreeListA", "StatsL", "StatsA"}

\* The instantiations whose copies take no memory from a buffer of their own.
Copyable(c) == c # "StatsA"

\* The first object, and a default-constructed second one.
This == GetObj(World(cfg), [NoObject EXCEPT !.d_ = d_])
Fresh == [NoObject EXCEPT !.p_ = NoObject.d_]

\* The operation returns: both objects and the memory change.
LifeReturn(st, o, al) ==
    LET w == PutObj(st.w, st.src)
    IN  /\ p_' = w.p_
        /\ heap' = w.heap
        /\ root_' = w.root_
        /\ list_size_' = w.list_size_
        /\ next' = w.next
        /\ number_of_records_' = w.number_of_records_
        /\ total_allocated_' = w.total_allocated_
        /\ stats_root_' = w.stats_root_
        /\ tail_' = w.tail_
        /\ rec' = w.rec
        /\ now' = w.now
        /\ op' = o
        /\ ret' = EmptyBlock
        /\ owned' = FALSE
        /\ err' = "none"
        /\ calls' = w.calls
        /\ linked' = NULL
        /\ undefined' = w.ub
        /\ out' = Account(w.calls, InnerKind(cfg), 1, out)
        /\ other' = st.dst
        /\ alive' = al
        /\ UNCHANGED <<cfg, held, lifo, leaked, events, maker>>

CopyConstructStep ==
    /\ alive /\ ~undefined /\ Copyable(cfg) /\ other.state = "none"
    /\ LET st == CopyConstruct(Pol(cfg), [dst |-> Fresh, src |-> This, w |-> World(cfg)])
       IN  LifeReturn([st EXCEPT !.dst.state = "live"],
                      Call("copy_construct", 0, EmptyBlock, 1), TRUE)

CopyAssignStep ==
    /\ alive /\ ~undefined /\ Copyable(cfg) /\ other.state = "live"
    /\ other.assigned < MaxAssigns
    /\ LET st == CopyAssign(Pol(cfg), [dst |-> other, src |-> This, w |-> World(cfg)])
       IN  LifeReturn([st EXCEPT !.dst.assigned = @ + 1], Call("copy_assign", 0, EmptyBlock, 1), TRUE)

MoveConstructStep ==
    /\ alive /\ ~undefined /\ Copyable(cfg) /\ other.state = "none"
    /\ LET st == MoveConstruct(Pol(cfg), [dst |-> Fresh, src |-> This, w |-> World(cfg)])
       IN  LifeReturn([st EXCEPT !.dst.state = "live"],
                      Call("move_construct", 0, EmptyBlock, 1), TRUE)

MoveAssignStep ==
    /\ alive /\ ~undefined /\ Copyable(cfg) /\ other.state = "live"
    /\ other.assigned < MaxAssigns
    /\ LET st == MoveAssign(Pol(cfg), [dst |-> other, src |-> This, w |-> World(cfg)])
       IN  LifeReturn([st EXCEPT !.dst.assigned = @ + 1], Call("move_assign", 0, EmptyBlock, 1), TRUE)

\* The first object's destructor runs: nothing is called on it afterwards.
DestroyStep ==
    /\ alive /\ ~undefined
    /\ LET w == Destroy(Pol(cfg), World(cfg))
       IN  LifeReturn([dst |-> other, src |-> GetObj(w, This), w |-> w],
                      Call("destroy", 0, EmptyBlock, 1), FALSE)

UseStep == alive /\ (AllocateStep \/ DeallocateStep)

NextLife ==
    \/ UseStep
    \/ CopyConstructStep
    \/ CopyAssignStep
    \/ MoveConstructStep
    \/ MoveAssignStep
    \/ DestroyStep

InitLife == cfg \in LifeScenarios /\ InitFields

SpecLife == InitLife /\ [][NextLife]_vars

(***************************************************************************)
(* Assignment onto an object that retains memory: the allocators over the  *)
(* heap, the second object constructed from the first, assigned from it    *)
(* and destroyed as well.  Both objects take their memory from the one     *)
(* heap.                                                                   *)
(***************************************************************************)
AssignScenarios == {"FreeListL", "StatsL1"}

\* The destructor of one of the two objects runs: of the first (t = 1), on
\* which nothing is called afterwards, or of the second (t = 2).
DestroyEitherStep ==
    /\ ~undefined
    /\ \E t \in {1, 2} :
         /\ IF t = 1 THEN alive ELSE other.state = "live"
         /\ LET o == IF t = 1 THEN This ELSE other
                w == Destroy(Pol(cfg), PutObj(World(cfg), o))
            IN  LifeReturn([dst |-> IF t = 1 THEN other
                                   ELSE [GetObj(w, other) EXCEPT !.state = "destroyed"],
                            src |-> IF t = 1 THEN GetObj(w, This) ELSE This,
                            w   |-> w],
                           Call(IF t = 1 THEN "destroy" ELSE "destroy_other",
                                0, EmptyBlock, 1),
                           alive /\ t = 2)

NextAssign ==
    \/ UseStep
    \/ CopyConstructStep
    \/ CopyAssignStep
    \/ MoveConstructStep
    \/ MoveAssignStep
    \/ DestroyEitherStep

InitAssign == cfg \in AssignScenarios /\ InitFields

SpecAssign == InitAssign /\ [][NextAssign]_vars

(***************************************************************************)
(* A Free_list_allocator over an arena of 64 bytes, asked for blocks       *)
(* below its window and inside it.                                         *)
(***************************************************************************)
FreeListArenaScenarios == {"FreeListA64"}

InitFreeListArena == cfg \in FreeListArenaScenarios /\ InitFields

\* The arena handed out an address it had not been given back, or two of the
\* caller's blocks share bytes: the caller's data is no longer its own.
Aliased ==
    \/ out.bad
    \/ \E b \in held : \E x \in held :
          x # b /\ b.data + b.size > x.data /\ x.data + x.size > b.data

\* The caller's calls, up to the first aliasing.
SoundStep == ~Aliased /\ (AllocateStep \/ DeallocateStep)

SpecFreeListArena == InitFreeListArena /\ [][SoundStep]_vars

(***************************************************************************)
(* The Shared_allocator instantiations on their own: two objects of        *)
(* Shared_allocator<Malloc_allocator, 7> and two of                        *)
(* Shared_allocator<Stack_allocator<16>, 7>.                               *)
(***************************************************************************)
SharedScenarios == {"SharedH", "SharedA"}

InitShared == cfg \in SharedScenarios /\ InitFields

SpecShared == InitShared /\ [][Next]_vars

(***************************************************************************)
(* Vocabulary of the properties.                                           *)
(***************************************************************************)
AllocateCalls == {"Malloc.allocate", "Stack.allocate", "Fallback.allocate",
                  "Free_list.allocate", "Stats.allocate", "Shared.allocate"}
LeafAllocateCalls == {"Malloc.allocate", "Stack.allocate"}

\* The entries of a call log made by member f.
Entries(cs, f) == { i \in 1..Len(cs) : cs[i].f = f }

HasFreeList(c) == c \in {"FreeListH", "FreeListA", "FallbackFAH"}
FreeListOf(c) == IF c = "FallbackFAH" THEN Pol(c).Primary ELSE Pol(c)
InRange(c, s) == s >= FreeListOf(c).Min_size /\ s <= FreeListOf(c).Max_size

IsFallback(c) == c \in {"FallbackAH", "FallbackFAH"}
PrimaryName(c) == IF c = "FallbackAH" THEN "Stack" ELSE "Free_list"

\* The addresses a policy can hand out.
RECURSIVE Producible(_, _)
Producible(pol, a) ==
    CASE pol.kind = "Malloc"   -> a # NULL
      [] pol.kind = "Stack"    -> a >= d_ /\ a < d_ + pol.Size
      [] pol.kind = "Fallback" -> Producible(pol.Primary, a) \/ Producible(pol.Fallback, a)
      [] OTHER                 -> Producible(pol.Internal_allocator, a)

HeldInArena(c) == { b \in held : InArena(c, b.data) }

\* The end of the newest live arena block (the buffer start when there is none).
TopEnd(c) ==
    IF HeldInArena(c) = {} THEN d_
    ELSE LET top == CHOOSE b \in HeldInArena(c) : \A x \in HeldInArena(c) : x.data <= b.data
         IN  top.data + top.size + (top.size % 2)

(***************************************************************************)
(* C1.  Round trip, for every policy and every size s > 0: a non-empty     *)
(* block b returned by allocate(s) has size s and a non-null address and   *)
(* owns(b) is true; deallocate of a non-empty block the caller holds ends  *)
(* without undefined behaviour and leaves the caller's block empty.        *)
(***************************************************************************)
C1_RoundTrip ==
    /\ (op.name = "allocate" /\ op.s > 0) =>
          /\ ~undefined
          /\ ~Block_empty(ret) =>
                /\ ret.size = op.s
                /\ ret.data # NULL
                /\ Owns(Pol(cfg), ret)
    /\ (op.name = "deallocate" /\ ~Block_empty(op.b)) =>
          /\ ~undefined
          /\ Block_empty(ret)

C1_Witness ==
    /\ cfg = "FallbackFAH"
    /\ op.name = "deallocate" /\ ~Block_empty(op.b) /\ op.b.data \in HeapAddrs(Slots(cfg))
    /\ Block_empty(ret)
    /\ held # {}

(***************************************************************************)
(* C2.  For every policy, deallocate of an empty Block (size 0 or a null   *)
(* address, as a failed allocate returns) is a no-op: the allocator's      *)
(* fields and memory are unchanged, no undefined behaviour is executed,    *)
(* nothing is requested from an inner allocator and no non-empty block is  *)
(* released to one.                                                        *)
(***************************************************************************)
C2_EmptyDeallocateIsNoOp ==
    [][ (op'.name = "deallocate" /\ Block_empty(op'.b)) =>
           /\ UNCHANGED allocState
           /\ ~undefined'
           /\ \A i \in 1..Len(calls') :
                 /\ calls'[i].f \notin AllocateCalls
                 /\ Block_empty(calls'[i].b) ]_vars

(***************************************************************************)
(* C3.  For every policy other than Heap, owns(b) is true only for a block *)
(* whose address the policy can hand out; a Free-list over an Arena        *)
(* answers false for an address outside the arena whatever b.size is, and  *)
(* no address outside the arena is ever linked into its list (also when    *)
(* the Free-list is the primary of a Fallback).                            *)
(***************************************************************************)
C3_OwnsHonest ==
    /\ (op.name = "owns" /\ owned) => Producible(Pol(cfg), op.b.data)
    /\ cfg \in {"FreeListA", "FallbackFAH"} =>
          \A a \in (DOMAIN next \cup {root_}) \ {NULL} :
              Producible(FreeListOf(cfg).Internal_allocator, a)

(***************************************************************************)
(* C4.  For every policy and every size s <= 0, allocate(s) returns an     *)
(* empty Block and leaves the allocator's fields and memory unchanged.     *)
(***************************************************************************)
C4_NonPositiveAllocate ==
    [][ (op'.name = "allocate" /\ op'.s <= 0) =>
           /\ Block_empty(ret')
           /\ ~undefined'
           /\ UNCHANGED allocState
           /\ held' = held ]_vars

C4_Witness ==
    /\ op.name = "allocate" /\ op.s < 0
    /\ Block_empty(ret)
    /\ cfg = "Arena16" /\ p_ > d_ /\ held # {}

(***************************************************************************)
(* C5.  The front door allocate(alloc, size): size < 0 gives the error     *)
(* invalid_size and size = 0 gives an empty Block as a value, both without *)
(* a call of the policy; for size > 0 the error is unknown exactly when    *)
(* the policy's allocate returned an empty Block, and otherwise the value  *)
(* is the policy's Block.                                                  *)
(***************************************************************************)
C5_FrontDoor ==
    op.name = "front_allocate" =>
       /\ op.s < 0 => err = "invalid_size" /\ Len(calls) = 0
       /\ op.s = 0 => err = "none" /\ Block_empty(ret) /\ Len(calls) = 0
       /\ op.s > 0 =>
             /\ Len(calls) > 0
             /\ LET top == calls[Len(calls)]
                IN  /\ top.f \in AllocateCalls /\ top.s = op.s
                    /\ (err = "unknown") <=> Block_empty(top.r)
                    /\ ~Block_empty(top.r) => err = "none" /\ ret = top.r

C5_Witness ==
    /\ op.name = "front_allocate" /\ op.s > 0
    /\ err = "unknown"
    /\ Len(calls) > 0

(***************************************************************************)
(* C6.  The Free-list never caches more than Max_list_size blocks:         *)
(* list_size_ <= Max_list_size in every reachable state.                   *)
(***************************************************************************)
C6_ListBounded ==
    HasFreeList(cfg) => list_size_ <= FreeListOf(cfg).Max_list_size

(***************************************************************************)
(* C7.  Free-list recycling is LIFO and bypasses the inner allocator: when *)
(* the previous call was a deallocate that linked address a, an            *)
(* allocate(s) with s in [Min_size, Max_size] returns (s, a), takes one    *)
(* off list_size_ and calls no inner allocate; an allocate(s) with s       *)
(* outside the window leaves root_ and list_size_ as they are.             *)
(***************************************************************************)
C7_LifoRecycling ==
    [][ (HasFreeList(cfg) /\ op'.name = "allocate") =>
           IF InRange(cfg, op'.s)
           THEN linked # NULL =>
                   /\ ret' = Block(op'.s, linked)
                   /\ list_size_' = list_size_ - 1
                   /\ \A i \in 1..Len(calls') : calls'[i].f \notin LeafAllocateCalls
           ELSE root_' = root_ /\ list_size_' = list_size_ ]_vars

C7_Witness ==
    /\ cfg = "FreeListH"
    /\ op.name = "allocate" /\ op.s = 48
    /\ op.prevLinked # NULL
    /\ ret = Block(48, op.prevLinked)
    /\ list_size_ = 1

(***************************************************************************)
(* C8.  Fallback(P, F): allocate returns P's block when it is non-empty    *)
(* and calls F only otherwise, returning F's block; deallocate calls       *)
(* P.deallocate exactly when P.owns(b) and F.deallocate exactly otherwise; *)
(* owns is P.owns or F.owns.  For Fallback(Arena[128], Heap) with requests *)
(* of 32: the heap serves a request only when the arena cannot, a request  *)
(* fails only when both are exhausted, owns is true of every block handed  *)
(* out, and freeing the arena blocks newest first brings p_ back to d_.    *)
(***************************************************************************)
C8_Fallback ==
    IsFallback(cfg) =>
       LET P  == Pol(cfg).Primary
           F  == Pol(cfg).Fallback
           pa == Entries(calls, PrimaryName(cfg) \o ".allocate")
           fa == Entries(calls, "Malloc.allocate")
           pd == Entries(calls, PrimaryName(cfg) \o ".deallocate")
           fd == Entries(calls, "Malloc.deallocate")
       IN  /\ op.name = "allocate" =>
                /\ Cardinality(pa) = 1
                /\ \A i \in pa :
                      IF Block_empty(calls[i].r)
                      THEN Cardinality(fa) = 1 /\ \A j \in fa : ret = calls[j].r
                      ELSE fa = {} /\ ret = calls[i].r
           /\ op.name = "deallocate" =>
                IF Owns(P, op.b)
                THEN Cardinality(pd) = 1 /\ fd = {}
                ELSE Cardinality(fd) = 1 /\ pd = {}
           /\ op.name = "owns" => (owned <=> (Owns(P, op.b) \/ Owns(F, op.b)))
           /\ cfg = "FallbackAH" =>
                /\ \A b \in held : Owns(Pol(cfg), b)
                /\ (op.name = "allocate" /\ op.s = 32 /\ ~undefined) =>
                      /\ ret.data \in HeapAddrs(Slots(cfg)) => p_ + 32 > d_ + 128
                      /\ Block_empty(ret) =>
                            p_ + 32 > d_ + 128 /\ heap = HeapAddrs(Slots(cfg))
                /\ (lifo /\ HeldInArena(cfg) = {}) => p_ = d_

C8_Witness ==
    /\ cfg = "FallbackAH"
    /\ op.name = "allocate" /\ op.s = 32
    /\ ret.data \in HeapAddrs(Slots(cfg))
    /\ Cardinality(HeldInArena(cfg)) = 4
    /\ Cardinality(held) = 5
    /\ \A b \in held : b.size = 32 /\ Owns(Pol(cfg), b)

(***************************************************************************)
(* C9.  Arena deallocation: a deallocate of b with                         *)
(* b.data = p_ - align(b.size) moves p_ to b.data and any other deallocate *)
(* leaves p_ unchanged; as long as every block was freed newest first, p_  *)
(* is the end of the newest live block, so it is d_ once all are freed;    *)
(* the bytes of a block freed otherwise stay below p_, so no later         *)
(* allocate hands them out.                                                *)
(***************************************************************************)
C9_ArenaDeallocate ==
    [][ ArenaSize(cfg) > 0 =>
           /\ op'.name = "deallocate" =>
                 IF op'.b.data = p_ - (op'.b.size + (op'.b.size % 2))
                 THEN p_' = op'.b.data
                 ELSE p_' = p_
           /\ lifo' => p_' = TopEnd(cfg)'
           /\ \A b \in leaked' : b.data + b.size <= p_' ]_vars

C9_Witness ==
    /\ cfg = "Arena16"
    /\ op.name = "deallocate" /\ op.b.size = 3
    /\ p_ = op.b.data /\ p_ > d_
    /\ lifo /\ held # {}

(***************************************************************************)
(* C10.  Arena allocation: allocate(s) with s > 0 on an arena of capacity  *)
(* Size returns (s, p_) and advances p_ by s rounded up to even when that  *)
(* still fits, and otherwise returns empty and leaves p_ and the blocks    *)
(* handed out as they are; p_ - d_ stays even and within [0, Size], and    *)
(* the live blocks lie inside the buffer and do not overlap.               *)
(***************************************************************************)
C10_ArenaAllocate ==
    [][ ArenaSize(cfg) > 0 =>
           /\ (op'.name = "allocate" /\ op'.s > 0) =>
                 LET rounded == op'.s + (op'.s % 2)
                 IN  /\ Cardinality(Entries(calls', "Stack.allocate")) = 1
                     /\ \A i \in Entries(calls', "Stack.allocate") :
                           IF p_ + rounded <= d_ + ArenaSize(cfg)
                           THEN /\ calls'[i].r = Block(op'.s, p_)
                                /\ p_' = p_ + rounded
                           ELSE /\ calls'[i].r = EmptyBlock
                                /\ p_' = p_
                                /\ HeldInArena(cfg)' = HeldInArena(cfg)
           /\ (p_' - d_) % 2 = 0
           /\ p_' - d_ >= 0 /\ p_' - d_ <= ArenaSize(cfg)
           /\ \A b \in HeldInArena(cfg)' :
                 /\ b.data + b.size <= d_ + ArenaSize(cfg)
                 /\ \A x \in HeldInArena(cfg)' :
                       x # b => (b.data + b.size <= x.data \/ x.data + x.size <= b.data) ]_vars

C10_Witness ==
    /\ cfg = "Arena16"
    /\ op.name = "allocate" /\ op.s = 3
    /\ ret.size = 3 /\ ret.data > d_
    /\ p_ = ret.data + 4

(***************************************************************************)
(* Vocabulary of the Stats_allocator properties.                           *)
(***************************************************************************)
IsStats(c) == Pol(c).kind = "Stats"

stats_list == stats_root_
stats_list_size == number_of_records_
total_allocated == total_allocated_

\* The addresses a client meets following next from a, at most fuel of them.
RECURSIVE Walk(_, _, _)
Walk(r, a, fuel) ==
    IF a = NULL \/ fuel = 0 \/ a \notin DOMAIN r THEN <<>>
    ELSE <<a>> \o Walk(r, r[a].next, fuel - 1)

RECURSIVE SumAmounts(_)
SumAmounts(es) == IF es = <<>> THEN 0 ELSE es[1].amount + SumAmounts(Tail(es))

\* The member calls that ask a leaf allocator for the bytes of a Record.
RecordRequests(cs) ==
    { i \in 1..Len(cs) : cs[i].f \in LeafAllocateCalls /\ cs[i].s = SizeofRecord }

(***************************************************************************)
(* C11.  Stats_allocator<I, N>: stats_list_size() <= N and it is the       *)
(* number of records reachable from stats_list(); when stats_list_size()   *)
(* is N, a further recorded event is written into the oldest record, which *)
(* becomes the newest, and the inner allocator is asked for no record.     *)
(***************************************************************************)
C11_RecordsBounded ==
    [][ IsStats(cfg) =>
           LET N == Pol(cfg).Number_of_records
           IN  /\ stats_list_size' <= N
               /\ Len(Walk(rec', stats_list', N + 1)) = stats_list_size'
               /\ (stats_list_size = N /\ Len(events') = Len(events) + 1) =>
                     /\ RecordRequests(calls') = {}
                     /\ DOMAIN rec' = DOMAIN rec
                     /\ tail_' = stats_list
                     /\ rec'[tail_'].time = now
                     /\ stats_list' = rec[stats_list].next ]_vars

C11_Witness ==
    /\ cfg = "StatsA"
    /\ stats_list_size = 2
    /\ Len(events) = 3
    /\ rec[tail_].time = events[3].time

(***************************************************************************)
(* C12.  total_allocated() is the sum of the amounts of all records ever   *)
(* written, overwritten ones included; an allocate or deallocate that      *)
(* wrote no record leaves total_allocated() and the record chain alone.    *)
(***************************************************************************)
C12_TotalIsSum ==
    [][ IsStats(cfg) =>
           /\ total_allocated' = SumAmounts(events')
           /\ events' = events =>
                 /\ total_allocated' = total_allocated
                 /\ UNCHANGED <<rec, stats_root_, tail_, number_of_records_>> ]_vars

C12_Witness ==
    /\ cfg = "StatsA"
    /\ op.name = "allocate" /\ ~Block_empty(ret)
    /\ RecordRequests(calls) # {}
    /\ \A i \in RecordRequests(calls) : Block_empty(calls[i].r)
    /\ Len(events) = 1
    /\ total_allocated = SumAmounts(events)

(***************************************************************************)
(* C13.  A record written for the allocation of a non-empty block has      *)
(* amount > 0 and a record written for the deallocation of a non-empty     *)
(* block has amount < 0.                                                   *)
(***************************************************************************)
C13_AmountSign ==
    IsStats(cfg) =>
       \A i \in 1..Len(events) :
          ~Block_empty(events[i].block) =>
             IF events[i].dealloc THEN events[i].amount < 0 ELSE events[i].amount > 0

(***************************************************************************)
(* C14.  An allocate that returns a non-empty block and a deallocate of a  *)
(* non-empty block write exactly one record, whose request_address is the  *)
(* block's address; an allocate that returns empty writes none.            *)
(***************************************************************************)
C14_OneRecordPerEvent ==
    [][ (IsStats(cfg) /\ op'.name \in {"allocate", "deallocate"}) =>
           LET blk == IF op'.name = "deallocate" THEN op'.b ELSE ret'
           IN  IF Block_empty(blk)
               THEN op'.name = "allocate" => events' = events
               ELSE /\ Len(events') = Len(events) + 1
                    /\ events'[Len(events')].request_address = blk.data ]_vars

(***************************************************************************)
(* C15.  The chain from stats_list() holds the most recent min(k, N) of    *)
(* the k records written, oldest first, and ends in a null next at tail_;  *)
(* with N = 2 over the heap, allocations of 10, 20 and 30 leave the        *)
(* records of 20 and of 30, and total_allocated() counts all three.        *)
(***************************************************************************)
C15_RingOrder ==
    IsStats(cfg) =>
       LET N  == Pol(cfg).Number_of_records
           ch == Walk(rec, stats_list, N + 1)
           k  == Len(events)
           n  == IF k < N THEN k ELSE N
       IN  /\ Len(ch) = n
           /\ \A j \in 1..n :
                 /\ rec[ch[j]].request_address = events[k - n + j].request_address
                 /\ rec[ch[j]].amount = events[k - n + j].amount
                 /\ rec[ch[j]].time = events[k - n + j].time
           /\ n > 0 => rec[ch[n]].next = NULL /\ tail_ = ch[n]
           /\ n = 0 => stats_list = NULL
           /\ (/\ k = 3
               /\ \A j \in 1..3 : ~events[j].dealloc
               /\ <<events[1].block.size, events[2].block.size, events[3].block.size>>
                     = <<10, 20, 30>>) =>
                 /\ <<rec[ch[1]].amount, rec[ch[2]].amount>>
                       = <<20 + SizeofRecord, 30 + SizeofRecord>>
                 /\ <<rec[ch[1]].request_address, rec[ch[2]].request_address>>
                       = <<events[2].block.data, events[3].block.data>>
                 /\ total_allocated = 60 + 3 * SizeofRecord

C15_Witness ==
    /\ cfg = "StatsRing"
    /\ Len(events) = 3
    /\ \A j \in 1..3 : ~events[j].dealloc
    /\ <<events[1].block.size, events[2].block.size, events[3].block.size>> = <<10, 20, 30>>
    /\ stats_list_size = 2
    /\ Cardinality(held) = 3

(***************************************************************************)
(* C17.  Shared_allocator<I, id>: whichever object a call is made on, it   *)
(* returns what the same call on the one I returns and changes I's state   *)
(* in the same way; owns is true of every held block on either object; a   *)
(* deallocate on one object of a block allocated on the other gives the    *)
(* memory back to I and empties the block.                                 *)
(***************************************************************************)
C17_SharedIsOne ==
    [][ Pol(cfg).kind = "Shared" =>
           LET I == Pol(cfg).Internal_allocator
               W == World(cfg)
           IN  /\ op'.name = "allocate" =>
                     LET r == Allocate(I, W, op'.s)
                     IN  ret' = r.b /\ p_' = r.w.p_ /\ heap' = r.w.heap
               /\ op'.name = "deallocate" =>
                     LET r == Deallocate(I, W, op'.b)
                     IN  /\ Block_empty(ret') /\ p_' = r.w.p_ /\ heap' = r.w.heap
                         /\ op'.b.data \in heap => op'.b.data \notin heap'
               /\ op'.name = "owns" => owned' = Owns(I, op'.b)
               /\ \A b \in held' : Owns(Pol(cfg), b) /\ Owns(I, b) ]_vars

C17_Witness ==
    /\ cfg = "SharedA"
    /\ op.name = "deallocate" /\ op.inst = 2 /\ op.by = 1
    /\ ~Block_empty(op.b) /\ Block_empty(ret)
    /\ p_ = op.b.data
    /\ \E b \in held : maker[b] = 2

(***************************************************************************)
(* Vocabulary of the lifetime properties.                                  *)
(***************************************************************************)
\* The (request_address, amount, time) of the records of a chain, in order.
RECURSIVE Triples(_, _, _)
Triples(r, a, fuel) ==
    IF a = NULL \/ fuel = 0 \/ a \notin DOMAIN r THEN <<>>
    ELSE <<<<r[a].request_address, r[a].amount, r[a].time>>>>
         \o Triples(r, r[a].next, fuel - 1)

\* The addresses the last operation passed to a deallocate of the inner allocator.
Released(cs, k) ==
    { cs[i].b.data : i \in Entries(cs, k \o ".deallocate") } \ {NULL}

(***************************************************************************)
(* C16.  After allocate and deallocate calls only, the destructor of a     *)
(* Free_list_allocator or a Stats_allocator executes no undefined          *)
(* behaviour and passes no block the caller still holds to the inner       *)
(* allocator; no address was given back to the inner allocator that was    *)
(* not out; and when the caller holds no block, every address taken from   *)
(* the inner allocator has been given back (over the heap: the heap is     *)
(* empty).                                                                 *)
(***************************************************************************)
C16_NoLeakOnTeardown ==
    (op.name = "destroy" /\ other.state = "none" /\ InnerKind(cfg) # "none") =>
       /\ ~undefined
       /\ ~out.bad
       /\ Released(calls, InnerKind(cfg)) \cap { b.data : b \in held } = {}
       /\ held = {} =>
             /\ out.out = {}
             /\ InnerKind(cfg) = "Malloc" => heap = {}

C16_Witness ==
    /\ cfg = "FreeListH"
    /\ op.name = "destroy" /\ other.state = "none"
    /\ held = {}
    /\ Cardinality(Released(calls, "Malloc")) = 3
    /\ heap = {}

(***************************************************************************)
(* C18.  Stack_allocator copy and move: after a copy construction or copy  *)
(* assignment the destination's p_ is its own d_ and the source is         *)
(* unchanged; after a move construction or move assignment the             *)
(* destination's p_ is its own d_ and the source's p_ is null; from then   *)
(* on every allocate on the source returns an empty block and every        *)
(* deallocate on it leaves p_ null.                                        *)
(***************************************************************************)
C18_ArenaCopyMove ==
    [][ cfg = "Arena16" =>
           /\ op'.name \in {"copy_construct", "copy_assign"} =>
                 /\ other'.p_ = other'.d_ /\ other'.d_ # d_
                 /\ p_' = p_ /\ held' = held
           /\ op'.name \in {"move_construct", "move_assign"} =>
                 /\ other'.p_ = other'.d_ /\ other'.d_ # d_
                 /\ p_' = NULL
           /\ (p_ = NULL /\ op'.name = "allocate") =>
                 Block_empty(ret') /\ p_' = NULL /\ ~undefined'
           /\ (p_ = NULL /\ op'.name = "deallocate") =>
                 Block_empty(ret') /\ p_' = NULL /\ ~undefined' ]_vars

C18_Witness ==
    /\ cfg = "Arena16"
    /\ p_ = NULL /\ other.p_ = other.d_
    /\ op.name = "allocate" /\ op.s = 3 /\ Block_empty(ret)
    /\ lifo /\ leaked # {}

(***************************************************************************)
(* C19.  Stats_allocator copy: after a copy construction or a copy         *)
(* assignment in which every record allocation succeeded, the              *)
(* destination's chain lists the (request_address, amount, time) of the    *)
(* source's chain, in order and in as many records, none of them a record  *)
(* of the source, and the source is unchanged.                             *)
(***************************************************************************)
C19_StatsCopy ==
    [][ (/\ IsStats(cfg)
         /\ op'.name \in {"copy_construct", "copy_assign"}
         /\ \A i \in RecordRequests(calls') : ~Block_empty(calls'[i].r)) =>
           LET N   == Pol(cfg).Number_of_records
               src == Walk(rec, stats_root_, N + 1)
               dst == Walk(rec', other'.stats_root_, N + 1)
           IN  /\ Triples(rec', other'.stats_root_, N + 1) = Triples(rec, stats_root_, N + 1)
               /\ other'.number_of_records_ = number_of_records_
               /\ \A i \in 1..Len(dst) : \A j \in 1..Len(src) : dst[i] # src[j]
               /\ Triples(rec', stats_root_', N + 1) = Triples(rec, stats_root_, N + 1)
               /\ UNCHANGED <<number_of_records_, total_allocated_, stats_root_, tail_>> ]_vars

(***************************************************************************)
(* C20.  Free_list_allocator over a Stack_allocator, the caller            *)
(* deallocating only blocks it holds: the blocks the caller holds occupy   *)
(* disjoint bytes, none of them contains a node of the free list, and the  *)
(* arena hands out no address that was not given back to it.               *)
(***************************************************************************)
C20_NoAliasing ==
    (Pol(cfg).kind = "Free_list" /\ InnerKind(cfg) = "Stack") =>
       /\ \A b \in held : \A x \in held :
             x # b => (b.data + b.size <= x.data \/ x.data + x.size <= b.data)
       /\ \A b \in held : \A a \in (DOMAIN next \cup {root_}) \ {NULL} :
             a < b.data \/ a >= b.data + b.size
       /\ ~out.bad

(***************************************************************************)
(* C21.  Assignment does not lose retained memory: when the second object  *)
(* was copy- or move-assigned to, both objects have been destroyed and the *)
(* caller holds no block, every address taken from the inner allocator has *)
(* been given back to it, once: the heap is empty.                         *)
(***************************************************************************)
C21_AssignReturnsRetained ==
    (/\ cfg \in AssignScenarios
     /\ ~alive /\ other.state = "destroyed" /\ other.assigned > 0
     /\ held = {}) =>
       /\ ~out.bad
       /\ out.out = {}
       /\ heap = {}

====
